---- MODULE Spec2Model ----
(***************************************************************************)
(* Model of internal/clients/tailscale.go: TerraformSetupBuilder and the   *)
(* terraform.SetupFn closure it returns (provider configuration            *)
(* resolution for provider-tailscale).                                     *)
(*                                                                         *)
(* Every statement of the closure that can return, or that calls a         *)
(* collaborator (client.Get, the usage tracker, the credential extractor,  *)
(* json.Unmarshal), is one action.  The collaborators are external: their  *)
(* outcome is drawn from the outcomes their contracts allow.               *)
(***************************************************************************)
EXTENDS Integers, Sequences, FiniteSets, TLC

\* ----------------------------------------------------------------- bounds
\* number of managed resources whose reconcilers call the SetupFn
NumCalls == 2
\* largest number of members of an enumerated JSON object payload
MaxPairs == 2

Procs == 1..NumCalls

\* ------------------------------------------------- constants of the source
errNoProviderConfig == "no providerConfigRef provided"
errGetProviderConfig == "cannot get referenced ProviderConfig"
errTrackUsage == "cannot track ProviderConfig usage"
errExtractCredentials == "cannot extract credentials"
errUnmarshalCredentials == "cannot unmarshal tailscale credentials as JSON"

keyBaseURL == "base_url"
keyAPIKey == "api_key"
keyOAuthClientID == "oauth_client_id"
keyOAuthClientSecret == "oauth_client_secret"
keyOAuthScopes == "scopes"
keyTailnet == "tailnet"
keyUserAgent == "user_agent"

\* the keys the closure looks up, in the order of its seven if statements
CopyOrder ==
  << keyAPIKey, keyBaseURL, keyOAuthClientID, keyOAuthClientSecret,
     keyOAuthScopes, keyTailnet, keyUserAgent >>

RecognizedKeys == { CopyOrder[n] : n \in 1..Len(CopyOrder) }

\* ------------------------------------------------------------ Go values
\* a nil error
NoError == [msg |-> "", cause |-> ""]

\* errors.New(msg): an error with no underlying cause
ErrorsNew(msg) == [msg |-> msg, cause |-> ""]

\* a wrap that keeps the message and loses the error it wraps
ErrorsWrapDroppingCause(cause, msg) == [msg |-> msg, cause |-> ""]

\* errors.Wrap(err, msg): msg in front, err kept as the cause
ErrorsWrap(cause, msg) == [msg |-> msg, cause |-> cause]

\* a Go map: nil, or a finite mapping
EmptyKV == [k \in {} |-> ""]
NilMap == [isNil |-> TRUE, kv |-> EmptyKV]
MakeMap == [isNil |-> FALSE, kv |-> EmptyKV]

\* v, ok := m[k] : a nil map reads as an empty one
Has(m, k) == k \in DOMAIN m.kv

\* m[k] = v
Put(m, k, v) ==
  [isNil |-> FALSE,
   kv |-> [x \in (DOMAIN m.kv) \cup {k} |-> IF x = k THEN v ELSE m.kv[x]]]

\* a JSON value / a value of Go type any: a string, a list of strings, ...
JString(s) == [t |-> "string", s |-> s, l |-> <<>>]
JNull == [t |-> "null", s |-> "", l |-> <<>>]
JList(l) == [t |-> "list", s |-> "", l |-> l]
JNumber == [t |-> "number", s |-> "", l |-> <<>>]

\* a Go string stored in a map[string]any
AnyOfString(s) == JString(s)

\* ------------------------------------------------------ credential bytes
\* the bytes the extractor returns, by what a JSON parser sees in them
ObjectPayload(members) == [kind |-> "object", members |-> members]
NullPayload == [kind |-> "null", members |-> <<>>]
ArrayPayload == [kind |-> "array", members |-> <<>>]
StringPayload == [kind |-> "string", members |-> <<>>]
InvalidPayload == [kind |-> "invalid", members |-> <<>>]
NoData == [kind |-> "none", members |-> <<>>]

Member(k, v) == [key |-> k, val |-> v]

PayloadKeys == RecognizedKeys \cup {"unused_field"}
PayloadValues == { JString("a"), JString("b"), JNull, JList(<<"devices:read">>) }
Members == [key : PayloadKeys, val : PayloadValues]

EnumeratedPayloads ==
  { ObjectPayload(ms) : ms \in UNION { [1..n -> Members] : n \in 0..MaxPairs } }

ScenarioPayloads ==
  { ObjectPayload(<< Member(keyAPIKey, JString("tskey-abc")),
                     Member(keyTailnet, JString("example.com")) >>),
    ObjectPayload(<< Member(keyOAuthClientID, JString("id1")),
                     Member(keyOAuthClientSecret, JString("secret1")),
                     Member("unused_field", JString("x")) >>),
    ObjectPayload(<< Member(keyOAuthClientID, JString("id1")),
                     Member(keyOAuthClientSecret, JString("secret1")),
                     Member(keyOAuthScopes, JList(<<"devices:read", "dns">>)) >>),
    ObjectPayload([n \in 1..Len(CopyOrder) |->
                     Member(CopyOrder[n], JString(CopyOrder[n]))]),
    ObjectPayload(<< Member(keyAPIKey, JNumber) >>),
    ObjectPayload(<< >>),
    NullPayload, ArrayPayload, StringPayload, InvalidPayload }

Payloads == EnumeratedPayloads \cup ScenarioPayloads


\* ------------------------------------------------------- json.Unmarshal
errJSONSyntax == "json: invalid character or unexpected end of JSON input"
errJSONType == "json: cannot unmarshal value into Go value of type string"
errJSONTopType == "json: cannot unmarshal value into Go value of type map[string]string"

\* the string a JSON member value leaves in a map[string]string element:
\* a JSON string is stored, null and a value of another type leave the zero
\* value
ElemOf(val) == IF val.t = "string" THEN val.s ELSE ""

\* whether a JSON member value fits a Go string (null is accepted)
FitsString(val) == val.t \in {"string", "null"}

\* the members of an object are stored one after the other (a repeated key
\* is overwritten); the first value that does not fit is the error reported
\* once the whole object has been read
RECURSIVE DecodeMembers(_, _, _)
DecodeMembers(members, m, cause) ==
  IF members = <<>> THEN [creds |-> m, cause |-> cause]
  ELSE LET mem == Head(members)
       IN DecodeMembers(Tail(members),
                        Put(m, mem.key, ElemOf(mem.val)),
                        IF cause = "" /\ ~FitsString(mem.val)
                          THEN errJSONType ELSE cause)

\* json.Unmarshal(data, &creds) with creds a map[string]string
JSONUnmarshal(bytes, m) ==
  CASE bytes.kind = "object" -> DecodeMembers(bytes.members, m, "")
    [] bytes.kind = "null" -> [creds |-> NilMap, cause |-> ""]
    [] bytes.kind \in {"array", "string"} -> [creds |-> m, cause |-> errJSONTopType]
    [] OTHER -> [creds |-> m, cause |-> errJSONSyntax]

\* ------------------------------------------------------- the closure's steps
\* a copy that does not test ok: an absent key is stored with the zero value
CopyKeyDefaulting(conf, m, k) ==
  Put(conf, k, AnyOfString(IF Has(m, k) THEN m.kv[k] ELSE ""))

\* if v, ok := creds[k]; ok { ps.Configuration[k] = v }
CopyKey(conf, m, k) == IF Has(m, k) THEN Put(conf, k, AnyOfString(m.kv[k])) ELSE conf

\* the seven if statements, in order
RECURSIVE CopyKeys(_, _, _)
CopyKeys(conf, m, keys) ==
  IF keys = <<>> THEN conf
  ELSE CopyKeys(CopyKey(conf, m, Head(keys)), m, Tail(keys))

\* a Configuration allocated by the first copy only
BuildConfigurationLazy(m) == CopyKeys(NilMap, m, CopyOrder)

\* ps.Configuration = map[string]any{} followed by the copies
BuildConfiguration(m) == CopyKeys(MakeMap, m, CopyOrder)

\* a setup with the requirement's source and version exchanged
NewSetupSwapped(b) ==
  [Version |-> b.version,
   Requirement |-> [Source |-> b.providerVersion, Version |-> b.providerSource],
   Configuration |-> NilMap]

\* ps := terraform.Setup{Version: ..., Requirement: {Source: ..., Version: ...}}
NewSetup(b) ==
  [Version |-> b.version,
   Requirement |-> [Source |-> b.providerSource, Version |-> b.providerVersion],
   Configuration |-> NilMap]

\* a closure without the nil test
NoConfigRefNever(ref) == FALSE

\* configRef == nil
NoConfigRef(ref) == ref.isNil

\* a closure that drops the error of client.Get
AfterGetIgnoringErr(cause) == "track"

\* a closure that extracts right after the fetch
AfterGetSkippingTrack(cause) == IF cause # "" THEN "return" ELSE "extract"

\* where the closure goes after client.Get returned err
AfterGet(cause) == IF cause # "" THEN "return" ELSE "track"

\* a closure that drops the error of t.Track
AfterTrackIgnoringErr(cause) == "extract"

\* where the closure goes after t.Track returned err
AfterTrack(cause) == IF cause # "" THEN "return" ELSE "extract"

\* where the closure goes after CommonCredentialExtractor returned err
AfterExtract(cause) == IF cause # "" THEN "return" ELSE "unmarshal"

\* where the closure goes after json.Unmarshal returned err
AfterUnmarshal(cause) == IF cause # "" THEN "return" ELSE "configure"

\* locals kept in one place shared by every invocation
FrameShared(i) == 1

\* the stack frame of invocation i: ps, pc, data and creds are locals of the
\* closure, allocated by each call
Frame(i) == i

\* ------------------------------------------------------------ environment
\* arguments main() may give TerraformSetupBuilder
BuilderArgs ==
  { [version |-> "1.5.7", providerSource |-> "tailscale/tailscale", providerVersion |-> "0.16.1"],
    [version |-> "1.6.0", providerSource |-> "registry/tailscale", providerVersion |-> "0.17.2"] }

\* mg.GetProviderConfigReference(): nil, or a reference by name
NilRef == [isNil |-> TRUE, name |-> ""]
RefTo(n) == [isNil |-> FALSE, name |-> n]
ConfigRefs == { NilRef, RefTo("default"), RefTo("missing") }

\* the ProviderConfig objects of the configuration store
StoredConfigs == {"default"}
ProviderConfigOf(n) == [name |-> n, source |-> "Secret"]
ZeroProviderConfig == [name |-> "", source |-> ""]

errCtxCanceled == "context canceled"
errNotFound == "ProviderConfig not found"
errApplyUsage == "cannot apply ProviderConfigUsage"
errGetSecret == "cannot get credentials secret"

\* what client.Get may return for a name ("" is a nil error)
GetOutcomes(n) ==
  IF n \in StoredConfigs THEN {"", errCtxCanceled} ELSE {errNotFound, errCtxCanceled}

\* what t.Track may return
TrackOutcomes == {"", errCtxCanceled, errApplyUsage}

\* the errors CommonCredentialExtractor may return
ExtractFailures == {errCtxCanceled, errGetSecret}

Event(op, cause, bytes) == [op |-> op, cause |-> cause, data |-> bytes]

ZeroSetup == NewSetup([version |-> "", providerSource |-> "", providerVersion |-> ""])
NoReturn == [ps |-> ZeroSetup, err |-> NoError]

\* ------------------------------------------------------------------ state
VARIABLES
  builder,  \* the arguments captured by the closure
  pc,       \* pc[i]: where invocation i of the closure stands
  mg,       \* mg[i]: the provider configuration reference of managed resource i
  ps,       \* ps[f]: the local ps of frame f
  pcObj,    \* pcObj[f]: the local pc (the fetched ProviderConfig) of frame f
  data,     \* data[f]: the local data of frame f
  creds,    \* creds[f]: the local creds of frame f
  ret,      \* ret[i]: what invocation i returned
  log,      \* log[i]: the calls invocation i made to its collaborators, in order
  usages    \* usages[i]: the ProviderConfig the store records resource i as using

vars == << builder, pc, mg, ps, pcObj, data, creds, ret, log, usages >>

Init ==
  /\ builder \in BuilderArgs
  /\ pc = [i \in Procs |-> "idle"]
  /\ mg = [i \in Procs |-> NilRef]
  /\ ps = [i \in Procs |-> ZeroSetup]
  /\ pcObj = [i \in Procs |-> ZeroProviderConfig]
  /\ data = [i \in Procs |-> NoData]
  /\ creds = [i \in Procs |-> NilMap]
  /\ ret = [i \in Procs |-> NoReturn]
  /\ log = [i \in Procs |-> <<>>]
  /\ usages = [i \in Procs |-> ""]

\* return ps, err
ReturnFrom(i, e) ==
  /\ ret' = [ret EXCEPT ![i] = [ps |-> ps[Frame(i)], err |-> e]]
  /\ pc' = [pc EXCEPT ![i] = "done"]

\* the reconciler of managed resource i calls the closure: ps is built
Call(i) ==
  /\ pc[i] = "idle"
  /\ \E ref \in ConfigRefs : mg' = [mg EXCEPT ![i] = ref]
  /\ ps' = [ps EXCEPT ![Frame(i)] = NewSetup(builder)]
  /\ pcObj' = [pcObj EXCEPT ![Frame(i)] = ZeroProviderConfig]
  /\ data' = [data EXCEPT ![Frame(i)] = NoData]
  /\ creds' = [creds EXCEPT ![Frame(i)] = NilMap]
  /\ pc' = [pc EXCEPT ![i] = "configRef"]
  /\ UNCHANGED << builder, ret, log, usages >>

\* the same, by a caller that runs one invocation at a time
SeqCall(i) ==
  /\ \A j \in Procs : pc[j] = "idle"
  /\ Call(i)

\* configRef := mg.GetProviderConfigReference(); if configRef == nil { return }
CheckConfigRef(i) ==
  /\ pc[i] = "configRef"
  /\ IF NoConfigRef(mg[i])
       THEN ReturnFrom(i, ErrorsNew(errNoProviderConfig))
       ELSE pc' = [pc EXCEPT ![i] = "get"] /\ UNCHANGED ret
  /\ UNCHANGED << builder, mg, ps, pcObj, data, creds, log, usages >>

\* pc := &ProviderConfig{}; client.Get(ctx, name, pc)
GetProviderConfig(i) ==
  /\ pc[i] = "get"
  /\ \E cause \in GetOutcomes(mg[i].name) :
       /\ log' = [log EXCEPT ![i] = Append(@, Event("Get", cause, NoData))]
       /\ pcObj' = [pcObj EXCEPT ![Frame(i)] =
                      IF cause = "" THEN ProviderConfigOf(mg[i].name) ELSE ZeroProviderConfig]
       /\ IF AfterGet(cause) = "return"
            THEN ReturnFrom(i, ErrorsWrap(cause, errGetProviderConfig))
            ELSE pc' = [pc EXCEPT ![i] = AfterGet(cause)] /\ UNCHANGED ret
  /\ UNCHANGED << builder, mg, ps, data, creds, usages >>

\* t := NewProviderConfigUsageTracker(...); t.Track(ctx, mg)
TrackUsage(i) ==
  /\ pc[i] = "track"
  /\ \E cause \in TrackOutcomes :
       /\ log' = [log EXCEPT ![i] = Append(@, Event("Track", cause, NoData))]
       /\ usages' = IF cause = "" THEN [usages EXCEPT ![i] = mg[i].name] ELSE usages
       /\ IF AfterTrack(cause) = "return"
            THEN ReturnFrom(i, ErrorsWrap(cause, errTrackUsage))
            ELSE pc' = [pc EXCEPT ![i] = AfterTrack(cause)] /\ UNCHANGED ret
  /\ UNCHANGED << builder, mg, ps, pcObj, data, creds >>

\* data, err := CommonCredentialExtractor(ctx, pc.Spec.Credentials.Source, ...)
\* where the secret holds one of the payloads of `contents`
ExtractCredentials(i, contents) ==
  /\ pc[i] = "extract"
  /\ \E out \in { Event("Extract", "", d) : d \in contents }
               \cup { Event("Extract", c, NoData) : c \in ExtractFailures } :
       /\ log' = [log EXCEPT ![i] = Append(@, out)]
       /\ data' = [data EXCEPT ![Frame(i)] = out.data]
       /\ IF AfterExtract(out.cause) = "return"
            THEN ReturnFrom(i, ErrorsWrap(out.cause, errExtractCredentials))
            ELSE pc' = [pc EXCEPT ![i] = AfterExtract(out.cause)] /\ UNCHANGED ret
  /\ UNCHANGED << builder, mg, ps, pcObj, creds, usages >>

\* creds := map[string]string{}; json.Unmarshal(data, &creds)
UnmarshalCredentials(i) ==
  /\ pc[i] = "unmarshal"
  /\ LET r == JSONUnmarshal(data[Frame(i)], MakeMap)
     IN /\ creds' = [creds EXCEPT ![Frame(i)] = r.creds]
        /\ IF AfterUnmarshal(r.cause) = "return"
             THEN ReturnFrom(i, ErrorsWrap(r.cause, errUnmarshalCredentials))
             ELSE pc' = [pc EXCEPT ![i] = AfterUnmarshal(r.cause)] /\ UNCHANGED ret
  /\ UNCHANGED << builder, mg, ps, pcObj, data, log, usages >>

\* ps.Configuration = map[string]any{}; the seven copies; return ps, nil
Configure(i) ==
  /\ pc[i] = "configure"
  /\ LET done == [ps[Frame(i)] EXCEPT !.Configuration = BuildConfiguration(creds[Frame(i)])]
     IN /\ ps' = [ps EXCEPT ![Frame(i)] = done]
        /\ ret' = [ret EXCEPT ![i] = [ps |-> done, err |-> NoError]]
        /\ pc' = [pc EXCEPT ![i] = "done"]
  /\ UNCHANGED << builder, mg, pcObj, data, creds, log, usages >>

\* the caller has consumed the result; the frame is gone
Consume(i) ==
  /\ pc[i] = "done"
  /\ pc' = [pc EXCEPT ![i] = "idle"]
  /\ mg' = [mg EXCEPT ![i] = NilRef]
  /\ ps' = [ps EXCEPT ![Frame(i)] = ZeroSetup]
  /\ pcObj' = [pcObj EXCEPT ![Frame(i)] = ZeroProviderConfig]
  /\ data' = [data EXCEPT ![Frame(i)] = NoData]
  /\ creds' = [creds EXCEPT ![Frame(i)] = NilMap]
  /\ ret' = [ret EXCEPT ![i] = NoReturn]
  /\ log' = [log EXCEPT ![i] = <<>>]
  /\ UNCHANGED << builder, usages >>

Step(i, contents) ==
  \/ CheckConfigRef(i)
  \/ GetProviderConfig(i)
  \/ TrackUsage(i)
  \/ ExtractCredentials(i, contents)
  \/ UnmarshalCredentials(i)
  \/ Configure(i)
  \/ Consume(i)

\* one invocation at a time, any credential payload
Next == \E i \in Procs : SeqCall(i) \/ Step(i, Payloads)

Spec == Init /\ [][Next]_vars

\* invocations for different managed resources interleaved step by step
NextConcurrent == \E i \in Procs : Call(i) \/ Step(i, ScenarioPayloads)

SpecConcurrent == Init /\ [][NextConcurrent]_vars


\* ============================================================ properties
Done(i) == pc[i] = "done"
Active(i) == pc[i] # "idle"

\* the positions in log[i] of the calls to collaborator op
CallsOf(i, op) == { n \in DOMAIN log[i] : log[i][n].op = op }
FailedCallsOf(i, op) == { n \in CallsOf(i, op) : log[i][n].cause # "" }

\* the static prefix of each collaborator step
PrefixOf(op) ==
  CASE op = "Get" -> errGetProviderConfig
    [] op = "Track" -> errTrackUsage
    [] op = "Extract" -> errExtractCredentials

KeysOf(bytes) == { bytes.members[n].key : n \in DOMAIN bytes.members }

\* the value of the last member of the object with key k
LastValue(bytes, k) ==
  LET at == { n \in DOMAIN bytes.members : bytes.members[n].key = k }
  IN bytes.members[CHOOSE n \in at : \A o \in at : o <= n].val

\* the builder's three arguments are in the setup result
CarriesBuilderArgs(setup) ==
  /\ setup.Version = builder.version
  /\ setup.Requirement.Source = builder.providerSource
  /\ setup.Requirement.Version = builder.providerVersion

\* C1: an invocation for a managed resource whose provider-configuration
\* reference is nil calls none of client.Get, Track and the credential
\* extractor, and what it returns is the errNoProviderConfig error.
C1_NilRefNoStoreCalls ==
  \A i \in Procs :
    (Active(i) /\ mg[i].isNil) =>
      /\ log[i] = <<>>
      /\ pc[i] \in {"configRef", "done"}
      /\ Done(i) => ret[i].err = [msg |-> errNoProviderConfig, cause |-> ""]

C1_Witness ==
  \E i \in Procs :
    Done(i) /\ mg[i].isNil /\ ret[i].err.msg = errNoProviderConfig /\ log[i] = <<>>

\* C2: on success the keys of the returned Configuration are exactly the
\* payload's keys that are recognized keys, each with the value the decoded
\* payload has for it (for a JSON string member, that string itself); no
\* other key appears and no absent key is added.
C2_ConfigurationIsIntersection ==
  \A i \in Procs :
    (Done(i) /\ ret[i].err = NoError) =>
      LET conf == ret[i].ps.Configuration
      IN /\ DOMAIN conf.kv = (DOMAIN creds[i].kv) \cap RecognizedKeys
         /\ DOMAIN conf.kv = KeysOf(data[i]) \cap RecognizedKeys
         /\ \A k \in DOMAIN conf.kv :
              /\ conf.kv[k] = [t |-> "string", s |-> creds[i].kv[k], l |-> <<>>]
              /\ LastValue(data[i], k).t = "string" => conf.kv[k] = LastValue(data[i], k)

C2_Witness ==
  \E i \in Procs :
    /\ Done(i) /\ ret[i].err = NoError
    /\ KeysOf(data[i]) = {keyOAuthClientID, keyOAuthClientSecret, "unused_field"}
    /\ DOMAIN ret[i].ps.Configuration.kv = {keyOAuthClientID, keyOAuthClientSecret}
    /\ ret[i].ps.Configuration.kv[keyOAuthClientID].s = "id1"

\* C3: when client.Get fails, the invocation makes no call to Track or to
\* the credential extractor, and returns the errGetProviderConfig error.
C3_GetFailureStops ==
  \A i \in Procs :
    FailedCallsOf(i, "Get") # {} =>
      /\ CallsOf(i, "Track") = {}
      /\ CallsOf(i, "Extract") = {}
      /\ Done(i)
      /\ ret[i].err.msg = errGetProviderConfig

C3_Witness ==
  \E i \in Procs :
    /\ Done(i)
    /\ log[i] = << [op |-> "Get", cause |-> errNotFound, data |-> NoData] >>
    /\ ret[i].err.msg = errGetProviderConfig

\* C4: when Track fails, the invocation makes no call to the credential
\* extractor, and the setup result it returns carries the builder's version,
\* requirement source and requirement version.
C4_TrackFailureStops ==
  \A i \in Procs :
    FailedCallsOf(i, "Track") # {} =>
      /\ CallsOf(i, "Extract") = {}
      /\ Done(i)
      /\ ret[i].err.msg = errTrackUsage
      /\ CarriesBuilderArgs(ret[i].ps)

C4_Witness ==
  \E i \in Procs :
    /\ Done(i)
    /\ FailedCallsOf(i, "Track") # {}
    /\ ret[i].err.msg = errTrackUsage
    /\ ret[i].ps.Version = builder.version

\* C5: on every return, failure or success, the setup result has the
\* Version, Requirement.Source and Requirement.Version given to
\* TerraformSetupBuilder, and no step of the invocation alters them in ps.
C5_ReturnCarriesBuilderArgs ==
  \A i \in Procs :
    /\ Active(i) => CarriesBuilderArgs(ps[i])
    /\ Done(i) => CarriesBuilderArgs(ret[i].ps)

C5_Witness ==
  \E i \in Procs :
    /\ Done(i)
    /\ ret[i].err.msg = errUnmarshalCredentials
    /\ CarriesBuilderArgs(ret[i].ps)

\* C6: an invocation past the configuration fetch calls Track exactly once,
\* before any call to the credential extractor; the extractor is called only
\* after a Track that succeeded; and the registration Track made stays in the
\* store when extraction or decoding fails afterwards.
C6_TrackOnceBeforeExtract ==
  \A i \in Procs :
    /\ Cardinality(CallsOf(i, "Track")) <= 1
    /\ (pc[i] \in {"extract", "unmarshal", "configure", "done"}
          /\ CallsOf(i, "Get") # {} /\ FailedCallsOf(i, "Get") = {})
         => Cardinality(CallsOf(i, "Track")) = 1
    /\ \A n \in CallsOf(i, "Extract") :
         \E m \in CallsOf(i, "Track") : m < n /\ log[i][m].cause = ""
    /\ (CallsOf(i, "Track") # {} /\ FailedCallsOf(i, "Track") = {})
         => usages[i] = mg[i].name

C6_Witness ==
  \E i \in Procs :
    /\ Done(i)
    /\ ret[i].err.msg = errExtractCredentials
    /\ Cardinality(CallsOf(i, "Track")) = 1
    /\ usages[i] = "default"

\* C7: a payload whose "scopes" member is a list of strings (its other
\* members strings) resolves successfully and "scopes" is that list in the
\* returned Configuration.
C7_ScopesListPassthrough ==
  \A i \in Procs :
    (/\ Done(i)
     /\ data[i].kind = "object"
     /\ keyOAuthScopes \in KeysOf(data[i])
     /\ \A n \in DOMAIN data[i].members :
          data[i].members[n].val.t =
            (IF data[i].members[n].key = keyOAuthScopes THEN "list" ELSE "string"))
    => /\ ret[i].err = NoError
       /\ Has(ret[i].ps.Configuration, keyOAuthScopes)
       /\ ret[i].ps.Configuration.kv[keyOAuthScopes] = LastValue(data[i], keyOAuthScopes)

\* a payload that json.Unmarshal rejects: not JSON, a non-object value other
\* than null, or an object with a member that is neither a string nor null
Malformed(bytes) ==
  \/ bytes.kind \in {"invalid", "array", "string"}
  \/ /\ bytes.kind = "object"
     /\ \E n \in DOMAIN bytes.members : bytes.members[n].val.t \notin {"string", "null"}

\* C8: a failure of client.Get, Track, the extractor or the decoding
\* (a context cancellation and a malformed payload included) ends the
\* invocation at once with a non-nil error that has the failed step's prefix
\* and its cause; no collaborator is called a second time.
C8_FailureWrappedAndReturned ==
  \A i \in Procs :
    /\ \A op \in {"Get", "Track", "Extract"} :
         /\ Cardinality(CallsOf(i, op)) <= 1
         /\ \A n \in FailedCallsOf(i, op) :
              /\ n = Len(log[i])
              /\ Done(i)
              /\ ret[i].err = [msg |-> PrefixOf(op), cause |-> log[i][n].cause]
    /\ (pc[i] \in {"configure", "done"} /\ Malformed(data[i])) =>
         /\ Done(i)
         /\ ret[i].err.msg = errUnmarshalCredentials
         /\ ret[i].err.cause =
              (CASE data[i].kind = "invalid" -> errJSONSyntax
                 [] data[i].kind = "object" -> errJSONType
                 [] OTHER -> errJSONTopType)

C8_Witness ==
  \E i \in Procs :
    /\ Done(i)
    /\ data[i] = ArrayPayload
    /\ ret[i].err = [msg |-> errUnmarshalCredentials, cause |-> errJSONTopType]

\* what one invocation returns when it runs alone, given the reference of
\* its managed resource and the answers its collaborators gave it
ResultAlone(ref, answers) ==
  LET setup == NewSetup(builder)
      get == { n \in DOMAIN answers : answers[n].op = "Get" }
      track == { n \in DOMAIN answers : answers[n].op = "Track" }
      extract == { n \in DOMAIN answers : answers[n].op = "Extract" }
      AnswerOf(at) == answers[CHOOSE n \in at : TRUE]
  IN IF ref.isNil
       THEN [ps |-> setup, err |-> ErrorsNew(errNoProviderConfig)]
     ELSE IF AnswerOf(get).cause # ""
       THEN [ps |-> setup, err |-> ErrorsWrap(AnswerOf(get).cause, errGetProviderConfig)]
     ELSE IF AnswerOf(track).cause # ""
       THEN [ps |-> setup, err |-> ErrorsWrap(AnswerOf(track).cause, errTrackUsage)]
     ELSE IF AnswerOf(extract).cause # ""
       THEN [ps |-> setup, err |-> ErrorsWrap(AnswerOf(extract).cause, errExtractCredentials)]
     ELSE LET r == JSONUnmarshal(AnswerOf(extract).data, MakeMap)
          IN IF r.cause # ""
               THEN [ps |-> setup, err |-> ErrorsWrap(r.cause, errUnmarshalCredentials)]
               ELSE [ps |-> [setup EXCEPT !.Configuration = BuildConfiguration(r.creds)],
                     err |-> NoError]

\* C9: under every interleaving of the steps of invocations for different
\* managed resources, each invocation returns what it returns alone on the
\* same reference and the same answers of the store.
C9_ConcurrentCallsIndependent ==
  \A i \in Procs : Done(i) => ret[i] = ResultAlone(mg[i], log[i])

C9_Witness ==
  \E i, j \in Procs :
    /\ i # j /\ Done(i) /\ Done(j)
    /\ ret[i].err = NoError /\ ret[j].err = NoError
    /\ ret[i].ps.Configuration.kv # EmptyKV
    /\ ret[j].ps.Configuration.kv # EmptyKV
    /\ ret[i].ps.Configuration # ret[j].ps.Configuration

\* C10: the returned Configuration is nil exactly when the invocation
\* fails; on success it is a non-nil map, empty when the payload has none of
\* the seven recognized keys (and such a payload of strings does succeed).
C10_ConfigurationSetIffSuccess ==
  \A i \in Procs :
    Done(i) =>
      /\ ret[i].ps.Configuration.isNil <=> (ret[i].err # NoError)
      /\ ret[i].err # NoError => ret[i].ps.Configuration.kv = EmptyKV
      /\ (ret[i].err = NoError /\ KeysOf(data[i]) \cap RecognizedKeys = {}) =>
           ret[i].ps.Configuration = [isNil |-> FALSE, kv |-> EmptyKV]
      /\ (/\ data[i].kind = "object"
          /\ KeysOf(data[i]) \cap RecognizedKeys = {}
          /\ \A n \in DOMAIN data[i].members : data[i].members[n].val.t = "string")
           => ret[i].err = NoError

C10_Witness ==
  \E i \in Procs :
    /\ Done(i) /\ ret[i].err = NoError
    /\ KeysOf(data[i]) = {"unused_field"}
    /\ ret[i].ps.Configuration = [isNil |-> FALSE, kv |-> EmptyKV]

====
